---- MODULE Spec2Model ----
(***************************************************************************)
(* Benchmark orchestration harness (benchmarking/framework).               *)
(*                                                                         *)
(* The model follows BenchmarkRunner.run_benchmark_suite statement by      *)
(* statement: pc names the statement of run_single_test that is executed   *)
(* next.  The external world (the load-generator process, the NATS server, *)
(* the PostgreSQL store, the CSV file the load generator leaves behind) is *)
(* a nondeterministic choice at the point where the coordinator observes   *)
(* it.  Time is the wall clock in whole seconds; only the blocking calls   *)
(* (time.sleep, Popen.wait, keep_alive) advance it.                        *)
(***************************************************************************)
EXTENDS Integers, Sequences, FiniteSets, TLC

VARIABLES
    user_counts,     \* run_benchmark_suite: the caller's list of concurrency levels
    idx,             \* run_benchmark_suite: 1-based position in user_counts
    success,         \* run_benchmark_suite: counter of runs that returned True
    results,         \* the values run_single_test returned so far, in order
    exit_status,     \* main: status handed to sys.exit (-1 while running)
    pc,              \* statement executed next
    run_id,          \* run_single_test: run_id of the current run
    run_ids,         \* every run_id generated so far, in order
    clock,           \* wall clock, seconds
    start,           \* run_single_test: start = time.time() before the loop
    in_with,         \* control is inside the `with CollectorClientSync()` block
    in_handler,      \* control is inside the `except Exception` handler
    pending,         \* what leaves the with block: "none", "retT", "retF", "exc"
    ret,             \* value run_single_test is about to return: "none", "T", "F"
    locust_process,  \* self.locust_process: 0 (None) or the run that launched it
    procs,           \* the load-generator process launched by each run
    nc,              \* CollectorClient.nc: "None", "open", "closed"
    subscription,    \* CollectorClient.subscription: "None", "active"
    subs,            \* number of subscriptions registered on the connection
    metrics_buffer,  \* CollectorClient.metrics_buffer
    inflight,        \* messages the server sent that no callback has seen yet
    published,       \* number of messages published so far in this run
    store,           \* committed rows of the result store, in commit order
    db_ok,           \* the shared psycopg2 connection accepts statements
    csv_files,       \* run_id -> rows of <run_id>_stats.csv, for the files that exist
    locust_metrics,  \* run_single_test: result of extract_metrics
    db_metrics,      \* run_single_test: result of get_aggregated_metrics
    sent,            \* the messages published so far in this run, each with
                     \* whether the coordinator was in a blocking sleep
    events           \* what the current run did so far, in order

vars == << user_counts, idx, success, results, exit_status, pc, run_id, run_ids,
           clock, start, in_with, in_handler, pending, ret, locust_process, procs,
           nc, subscription, subs, metrics_buffer, inflight, published, store, db_ok,
           csv_files, locust_metrics, db_metrics, sent, events >>

(***************************************************************************)
(* Bounds of the model.                                                    *)
(***************************************************************************)
MaxMsgs == 1         \* messages published on the topic during one run
MaxSamples == 3      \* messages published to a collector client used on its own
MaxRows == 3         \* data rows of a stats file handed to the extractor on its own
MaxSubs == 2         \* subscriptions a client called out of order may pile up

(***************************************************************************)
(* Program constants.                                                      *)
(***************************************************************************)
Duration == 120      \* run_single_test(duration=120)
Cooldown == 30       \* run_single_test(cooldown=30)
SafetyMargin == 60   \* time.time() - start > duration + 60
CollectSleep == 2    \* time.sleep(2) after start_collecting
GraceSleep == 3      \* time.sleep(3) in start_locust
KeepAliveSlice == 1  \* collector.keep_alive(1.0)
WaitTimeout == 30    \* wait_for_locust_completion(timeout=30)
StopTimeout == 10    \* self.locust_process.wait(timeout=10)
FlushSleep == 2      \* time.sleep(2) before extract_metrics

(***************************************************************************)
(* Inputs the environment chooses from.                                    *)
(***************************************************************************)
\* The lists of concurrency levels run_benchmark_suite is called with.
SuiteLists == { << 50 >>, << 50, 50 >>, << 50, 100 >> }
MaxRuns == CHOOSE n \in 1..3 : /\ \E l \in SuiteLists : Len(l) = n
                               /\ \A l \in SuiteLists : Len(l) <= n
ExitCodes == {0, 1}
\* Elapsed seconds of the liveness loop at which the process may be found exited.
ExitTimes == {Duration}
\* Seconds a process that does exit during a bounded wait takes to do so.
ExitDelay == 1
\* Rows of a stats file: a well-formed endpoint row, the aggregated total,
\* a row with non-numeric text, a row shorter than the header.
RowKinds == {"ok", "agg", "bad", "short"}
RunCsvFiles == { <<>>, <<"ok", "agg">>, <<"short">> }

SeqsUpTo(S, n) == UNION { [1..k -> S] : k \in 0..n }

(***************************************************************************)
(* BenchmarkRunner.generate_run_id: app name and stage are fixed for one   *)
(* coordinator, so a run_id is the concurrency level and the UTC timestamp *)
(* formatted to whole seconds.                                             *)
(***************************************************************************)
generate_run_id(user_count, now) == << user_count, now >>

(***************************************************************************)
(* LocustCollector.extract_metrics.  A file is the sequence of its data    *)
(* rows; the result names the rows that produced a metric by position.     *)
(* int()/float() of non-numeric text raises ValueError, which drops the    *)
(* row; a row shorter than the header yields None for the missing columns  *)
(* and int(None) raises TypeError, which is not caught.                    *)
(***************************************************************************)
RowSkipped(kind) == kind = "agg"
RowParses(kind) == kind = "ok"
RowRaises(kind) == kind = "short"

RECURSIVE ExtractRows(_, _, _)
ExtractRows(file, i, acc) ==
    IF i > Len(file) THEN [raised |-> FALSE, rows |-> acc]
    ELSE IF RowSkipped(file[i]) THEN ExtractRows(file, i + 1, acc)
    ELSE IF RowRaises(file[i]) THEN [raised |-> TRUE, rows |-> << >>]
    ELSE IF RowParses(file[i]) THEN ExtractRows(file, i + 1, Append(acc, i))
    ELSE ExtractRows(file, i + 1, acc)

\* the existence of the file is not checked: opening it raises
extract_metrics_unchecked(files, rid) ==
    IF rid \notin DOMAIN files THEN [raised |-> TRUE, rows |-> << >>]
    ELSE ExtractRows(files[rid], 1, << >>)

extract_metrics(files, rid) ==
    IF rid \notin DOMAIN files THEN [raised |-> FALSE, rows |-> << >>]
    ELSE ExtractRows(files[rid], 1, << >>)

(***************************************************************************)
(* CollectorClient.start_collecting.message_handler.  A message is         *)
(* [kind, body]: kind "invalid" is not JSON, "array" is JSON that is not   *)
(* an object (the item assignment raises TypeError), "object" is a JSON    *)
(* object whose body maps the keys it has to their values.                 *)
(***************************************************************************)
message_handler(buffer, msg) ==
    IF msg.kind = "object" THEN Append(buffer, msg.body) ELSE buffer

\* the first exception of the callback ends the delivery
RECURSIVE DispatchUntilError(_, _)
DispatchUntilError(buffer, msgs) ==
    IF msgs = << >> \/ Head(msgs).kind # "object" THEN buffer
    ELSE DispatchUntilError(Append(buffer, Head(msgs).body), Tail(msgs))

RECURSIVE Dispatch(_, _)
Dispatch(buffer, msgs) ==
    IF msgs = << >> THEN buffer
    ELSE Dispatch(message_handler(buffer, Head(msgs)), Tail(msgs))

(***************************************************************************)
(* CollectorClient.aggregate_metrics.  dict.get(key, default).             *)
(***************************************************************************)
Get(d, k, default) == IF k \in DOMAIN d THEN d[k] ELSE default
EmptyDict == [k \in {} |-> 0]
\* JSON null (Python None).  Reported numbers are never negative, so null is
\* encoded as a value below every number; it is falsy like 0 and raises
\* TypeError where it is compared or added.
Null == 0 - 1
IsNull(v) == v = Null
Falsy(v) == v = 0 \/ IsNull(v)

RECURSIVE SumSeq(_)
SumSeq(s) == IF s = << >> THEN 0 ELSE Head(s) + SumSeq(Tail(s))

\* int(total / n) for non-negative totals
IntMean(s) == SumSeq(s) \div Len(s)
\* round(total / n, digits), values counted in units of the last digit kept
RoundMean(s) ==
    LET t == SumSeq(s)  n == Len(s)  q == t \div n  r == t % n
    IN  IF 2 * r > n THEN q + 1
        ELSE IF 2 * r < n THEN q
        ELSE IF q % 2 = 0 THEN q ELSE q + 1

Measurements(metric) == Get(metric, "measurements", EmptyDict)
HasMeasurements(metric) == DOMAIN Measurements(metric) # {}
HasHealth(metric) ==
    \/ ~Falsy(Get(metric, "connection_health", 0))
    \/ ~Falsy(Get(metric, "query_health", 0))
    \/ ~Falsy(Get(metric, "cache_health", 0))
    \/ ~Falsy(Get(metric, "health_score", 0))

connection_samples(buffer) == SelectSeq(buffer, HasMeasurements)
\* `if cache_rate >= 0`: a reading of zero counts
CacheCountsZero(metric) ==
    HasMeasurements(metric) /\ Get(Measurements(metric), "cache_hit_rate", 0) >= 0

CacheCounts(metric) ==
    HasMeasurements(metric) /\ Get(Measurements(metric), "cache_hit_rate", 0) > 0
cache_samples(buffer) == SelectSeq(buffer, CacheCounts)
health_samples(buffer) == SelectSeq(buffer, HasHealth)

Active(m) == Get(Measurements(m), "active_connections", 0)
MaxConn(m) == Get(Measurements(m), "max_connections", 100)
CacheRate(m) == Get(Measurements(m), "cache_hit_rate", 0)
SeqScans(m) == Get(Measurements(m), "sequential_scans", 0)
QueryHealth(m) == Get(m, "query_health", 0)
ConnHealth(m) == Get(m, "connection_health", 0)
CacheHealth(m) == Get(m, "cache_health", 0)
OverallHealth(m) == Get(m, "health_score", 0)

\* the value a sample contributes to the sum for field k
Field(m, k) ==
    CASE k = "active_connections" -> Active(m)
      [] k = "cache_hit_rate" -> CacheRate(m)
      [] k = "sequential_scans" -> SeqScans(m)
      [] k = "query_health" -> QueryHealth(m)
      [] k = "connection_health" -> ConnHealth(m)
      [] k = "cache_health" -> CacheHealth(m)
      [] k = "overall_health" -> OverallHealth(m)
Values(samples, k) == [i \in 1..Len(samples) |-> Field(samples[i], k)]

AggregatedKeys(buffer) ==
    (IF connection_samples(buffer) # << >>
       THEN {"active_connections", "max_connections",
             "sequential_scans", "index_scans"} ELSE {})
    \cup (IF cache_samples(buffer) # << >> THEN {"cache_hit_rate"} ELSE {})
    \cup (IF health_samples(buffer) # << >>
       THEN {"query_health", "connection_health",
             "cache_health", "overall_health"} ELSE {})

AggregatedValue(buffer, k) ==
    CASE k = "active_connections" -> IntMean(Values(connection_samples(buffer), k))
      [] k = "max_connections" -> MaxConn(connection_samples(buffer)[1])
      [] k = "cache_hit_rate" -> RoundMean(Values(cache_samples(buffer), k))
      [] k = "sequential_scans" -> IntMean(Values(connection_samples(buffer), k))
      [] k = "index_scans" -> 0
      [] OTHER -> RoundMean(Values(health_samples(buffer), k))

\* `cache_rate > 0` in the loop and the sums after it raise TypeError on None
SummedKeys(k) ==
    CASE k = "measurements" -> {"active_connections", "sequential_scans"}
      [] k = "health" -> {"query_health", "connection_health", "cache_health",
                          "overall_health"}
AggregateRaises(buffer) ==
    \/ \E i \in 1..Len(buffer) :
         /\ HasMeasurements(buffer[i])
         /\ \/ IsNull(CacheRate(buffer[i]))
            \/ \E k \in SummedKeys("measurements") : IsNull(Field(buffer[i], k))
    \/ \E i \in 1..Len(buffer) :
         /\ HasHealth(buffer[i])
         /\ \E k \in SummedKeys("health") : IsNull(Field(buffer[i], k))

NoMetrics == [none |-> TRUE, raised |-> FALSE, agg |-> EmptyDict]

\* the empty buffer yields a record of zeros
aggregate_metrics_zeros(buffer) ==
    IF buffer = << >>
      THEN [none |-> FALSE, raised |-> FALSE,
            agg |-> [k \in {"active_connections", "cache_hit_rate"} |-> 0]]
    ELSE IF AggregateRaises(buffer)
      THEN [none |-> FALSE, raised |-> TRUE, agg |-> EmptyDict]
    ELSE [none |-> FALSE, raised |-> FALSE,
          agg |-> [k \in AggregatedKeys(buffer) |-> AggregatedValue(buffer, k)]]

\* The result is [none, raised, agg]: none stands for Python's None, raised for
\* an exception leaving the call.
aggregate_metrics(buffer) ==
    IF buffer = << >> THEN NoMetrics
    ELSE IF AggregateRaises(buffer)
      THEN [none |-> FALSE, raised |-> TRUE, agg |-> EmptyDict]
    ELSE [none |-> FALSE, raised |-> FALSE,
          agg |-> [k \in AggregatedKeys(buffer) |-> AggregatedValue(buffer, k)]]

\* `if db_metrics:` in run_single_test
Truthy(m) == ~m.none /\ DOMAIN m.agg # {}

\* Messages published in the coordinator's runs.
FullSample ==
    [measurements |-> [active_connections |-> 5, max_connections |-> 100,
                       cache_hit_rate |-> 9000, sequential_scans |-> 3],
     health_score |-> 80]
\* a sample whose cache_hit_rate is null
NullSample == [measurements |-> [cache_hit_rate |-> Null]]
RunMessages ==
    { [kind |-> "object", body |-> FullSample],
      [kind |-> "object", body |-> NullSample] }

(***************************************************************************)
(* BenchmarkRunner.run_single_test: the statements of the try body in      *)
(* program order.  "enter" is the with statement (CollectorClientSync      *)
(* __enter__); "start_locust" is followed by its own second half "grace";  *)
(* "poll" is the head of the liveness loop, whose body is "keep_alive".    *)
(***************************************************************************)
\* the collector is connected before the run is recorded
TryBodyConnectFirst ==
    << "enter", "create_benchmark_run", "start_collecting", "sleep_collect",
       "start_locust", "poll", "wait_for_locust_completion", "stop_collecting",
       "sleep_flush", "extract_metrics", "insert_locust_metrics",
       "collector_metrics", "create_run_summary", "cooldown", "return_true" >>

\* the load generator is launched before the collector subscribes
TryBodyLocustFirst ==
    << "create_benchmark_run", "enter", "start_locust", "start_collecting",
       "sleep_collect", "poll", "wait_for_locust_completion", "stop_collecting",
       "sleep_flush", "extract_metrics", "insert_locust_metrics",
       "collector_metrics", "create_run_summary", "cooldown", "return_true" >>

\* the summary is requested before the metric rows are inserted
TryBodySummaryFirst ==
    << "create_benchmark_run", "enter", "start_collecting", "sleep_collect",
       "start_locust", "poll", "wait_for_locust_completion", "stop_collecting",
       "sleep_flush", "extract_metrics", "create_run_summary",
       "insert_locust_metrics", "collector_metrics", "cooldown", "return_true" >>

\* the aggregated health row is inserted before the endpoint rows
TryBodyHealthFirst ==
    << "create_benchmark_run", "enter", "start_collecting", "sleep_collect",
       "start_locust", "poll", "wait_for_locust_completion", "stop_collecting",
       "sleep_flush", "extract_metrics", "collector_metrics",
       "insert_locust_metrics", "create_run_summary", "cooldown", "return_true" >>

TryBody ==
    << "create_benchmark_run", "enter", "start_collecting", "sleep_collect",
       "start_locust", "poll", "wait_for_locust_completion", "stop_collecting",
       "sleep_flush", "extract_metrics", "insert_locust_metrics",
       "collector_metrics", "create_run_summary", "cooldown", "return_true" >>

StmtIndex(stmt) == CHOOSE i \in 1..Len(TryBody) : TryBody[i] = stmt
NextStmt(stmt) == TryBody[StmtIndex(stmt) + 1]
FirstStmt == TryBody[1]

\* the poll after the grace period is left out
StartLocustResultUnchecked(alive) == TRUE

\* start_locust: `if self.locust_process.poll() is not None: return False`
StartLocustResult(alive) == alive
\* the return code is not looked at
WaitResultAnyCode(timed_out, returncode) == ~timed_out

\* wait_for_locust_completion: returncode == 0, False on TimeoutExpired
WaitResult(timed_out, returncode) == ~timed_out /\ returncode = 0
\* the liveness loop: `if time.time() - start > duration + 60: break`
SafetyTimeout(elapsed) == elapsed > Duration + SafetyMargin
\* run_benchmark_suite: `return success == len(user_counts)`
\* the suite succeeds as soon as one run did
SuiteResultAny(n_success, n_runs) == n_success > 0

SuiteResult(n_success, n_runs) == n_success = n_runs
\* main: `sys.exit(0 if success else 1)`
ExitStatus(suite_ok) == IF suite_ok THEN 0 ELSE 1

(***************************************************************************)
(* BenchmarkDatabase.  A row is [table, run_id, n]; n is the number of     *)
(* endpoint rows of one bulk insert, 1 for the other tables.  No statement *)
(* is ever rolled back, so after a statement has failed the connection     *)
(* refuses every later statement (db_ok stays FALSE).                      *)
(***************************************************************************)
Row(table, rid, n) == [table |-> table, run_id |-> rid, n |-> n]
Rows(st, table, rid) ==
    SelectSeq(st, LAMBDA r : r.table = table /\ r.run_id = rid)
HasRow(st, table, rid) == Rows(st, table, rid) # << >>
\* benchmark_runs.run_id is the table's key
RunIdFree(st, rid) == ~HasRow(st, "benchmark_runs", rid)

Alive(p) == p.state = "alive"
NoProcess == [state |-> "none", code |-> 0]

Terminal == {"terminated", "crashed"}

Log(e) == events' = Append(events, e)

Init ==
    /\ user_counts \in SuiteLists
    /\ idx = 1
    /\ success = 0
    /\ results = << >>
    /\ exit_status = -1
    /\ pc = "suite_loop"
    /\ run_id = << 0, 0 >>
    /\ run_ids = << >>
    /\ clock = 0
    /\ start = 0
    /\ in_with = FALSE
    /\ in_handler = FALSE
    /\ pending = "none"
    /\ ret = "none"
    /\ locust_process = 0
    /\ procs = [i \in 1..MaxRuns |-> NoProcess]
    /\ nc = "None"
    /\ subscription = "None"
    /\ subs = 0
    /\ metrics_buffer = << >>
    /\ inflight = << >>
    /\ published = 0
    /\ store = << >>
    /\ db_ok = TRUE
    /\ csv_files = EmptyDict
    /\ locust_metrics = << >>
    /\ db_metrics = NoMetrics
    /\ sent = << >>
    /\ events = << >>

(***************************************************************************)
(* Raising inside run_single_test.  Inside the with block the exception    *)
(* first runs __exit__; inside the except handler nothing catches it and   *)
(* it leaves run_single_test, run_benchmark_suite and main.                *)
(***************************************************************************)
Goto(stmt) ==
    /\ pc' = stmt
    /\ UNCHANGED << pending, ret >>

Raise ==
    /\ pc' = IF in_handler THEN "crashed"
             ELSE IF in_with THEN "exit_unsubscribe" ELSE "except"
    /\ pending' = IF ~in_handler /\ in_with THEN "exc" ELSE pending
    /\ UNCHANGED ret

\* `return False` inside the with block: __exit__ runs before the value is returned
ReturnFromWith(value) ==
    /\ pc' = "exit_unsubscribe"
    /\ pending' = value
    /\ UNCHANGED ret

suite == << user_counts, idx, success, results, exit_status >>
ident == << run_id, run_ids >>
scope == << in_with, in_handler >>
proc == << locust_process, procs >>
coll == << nc, subscription, subs, metrics_buffer, inflight, published, sent >>
files == << csv_files, locust_metrics, db_metrics >>

(***************************************************************************)
(* run_benchmark_suite and main.                                           *)
(***************************************************************************)
\* for idx, users in enumerate(user_counts, 1): run_single_test(users, ...)
SuiteLoop ==
    /\ pc = "suite_loop"
    /\ idx <= Len(user_counts)
    /\ run_id' = generate_run_id(user_counts[idx], clock)
    /\ run_ids' = Append(run_ids, run_id')
    /\ Goto(FirstStmt)
    /\ UNCHANGED << suite, clock, start, scope, proc, coll, store, db_ok, files,
                    events >>

\* return success == len(user_counts); db.close(); sys.exit(0 if success else 1)
SuiteDone ==
    /\ pc = "suite_loop"
    /\ idx > Len(user_counts)
    /\ exit_status' = ExitStatus(SuiteResult(success, Len(user_counts)))
    /\ Goto("terminated")
    /\ UNCHANGED << user_counts, idx, success, results, ident, clock, start, scope,
                    proc, coll, store, db_ok, files, events >>

\* if self.run_single_test(...): success += 1
Return ==
    /\ pc = "return"
    /\ results' = Append(results, ret = "T")
    /\ success' = IF ret = "T" THEN success + 1 ELSE success
    /\ idx' = idx + 1
    /\ pc' = "suite_loop"
    /\ pending' = "none"
    /\ ret' = "none"
    /\ in_with' = FALSE
    /\ in_handler' = FALSE
    /\ nc' = "None"
    /\ subscription' = "None"
    /\ subs' = 0
    /\ metrics_buffer' = << >>
    /\ inflight' = << >>
    /\ locust_metrics' = << >>
    /\ db_metrics' = NoMetrics
    /\ events' = << >>
    /\ published' = 0
    /\ sent' = << >>
    /\ UNCHANGED << user_counts, exit_status, ident, clock, start, proc, store,
                    db_ok, csv_files >>

\* an exception that left the except handler ends the interpreter
Crash ==
    /\ pc = "crashed"
    /\ exit_status = -1
    /\ exit_status' = 1
    /\ UNCHANGED << user_counts, idx, success, results, pc, ident, clock, start,
                    scope, pending, ret, proc, coll, store, db_ok, files, events >>

(***************************************************************************)
(* The result store.                                                       *)
(***************************************************************************)
DbStatement(accepted, row, event) ==
    \/ /\ db_ok
       /\ accepted
       /\ store' = Append(store, row)
       /\ db_ok' = db_ok
       /\ Log(event)
       /\ Goto(NextStmt(pc))
    \/ /\ store' = store
       /\ db_ok' = FALSE
       /\ Log("db_error")
       /\ Raise

\* self.db.create_benchmark_run(run_id, ...)
CreateBenchmarkRun ==
    /\ pc = "create_benchmark_run"
    /\ DbStatement(RunIdFree(store, run_id), Row("benchmark_runs", run_id, 1),
                   "create_benchmark_run")
    /\ UNCHANGED << suite, ident, clock, start, scope, proc, coll, files >>

\* the insert is made whether or not any metric was extracted
InsertLocustMetricsAlways ==
    /\ pc = "insert_locust_metrics"
    /\ DbStatement(TRUE, Row("locust_metrics", run_id, Len(locust_metrics)),
                   "insert_locust_metrics")
    /\ UNCHANGED << suite, ident, clock, start, scope, proc, coll, files >>

\* if locust_metrics: self.db.insert_locust_metrics(run_id, locust_metrics)
InsertLocustMetrics ==
    /\ pc = "insert_locust_metrics"
    /\ IF locust_metrics # << >>
         THEN DbStatement(TRUE, Row("locust_metrics", run_id, Len(locust_metrics)),
                          "insert_locust_metrics")
         ELSE /\ Goto(NextStmt(pc))
              /\ UNCHANGED << store, db_ok, events >>
    /\ UNCHANGED << suite, ident, clock, start, scope, proc, coll, files >>

\* db_metrics = collector.get_aggregated_metrics(); if db_metrics: insert
CollectorMetrics ==
    /\ pc = "collector_metrics"
    /\ LET r == aggregate_metrics(metrics_buffer)
       IN  IF r.raised
             THEN /\ Log("aggregate_error")
                  /\ Raise
                  /\ UNCHANGED << store, db_ok, db_metrics >>
             ELSE /\ db_metrics' = r
                  /\ IF Truthy(r)
                       THEN DbStatement(TRUE, Row("collector_metrics", run_id, 1),
                                        "insert_collector_metrics")
                       ELSE /\ Goto(NextStmt(pc))
                            /\ UNCHANGED << store, db_ok, events >>
    /\ UNCHANGED << suite, ident, clock, start, scope, proc, coll, csv_files,
                    locust_metrics >>

\* self.db.create_run_summary(run_id): INSERT ... SELECT of aggregates, one row
CreateRunSummary ==
    /\ pc = "create_run_summary"
    /\ DbStatement(TRUE, Row("run_summary", run_id, 1), "create_run_summary")
    /\ UNCHANGED << suite, ident, clock, start, scope, proc, coll, files >>

(***************************************************************************)
(* The streaming collector (CollectorClientSync around CollectorClient).   *)
(***************************************************************************)
\* connect logs the error and does not raise it again
OnConnectErrorSwallowed == Goto(NextStmt(pc))

\* CollectorClient.connect: `except Exception as e: logger.error(...); raise`
OnConnectError == Raise

\* with CollectorClientSync() as collector: a new client, then __enter__ connects
Enter ==
    /\ pc = "enter"
    /\ subscription' = "None"
    /\ subs' = 0
    /\ metrics_buffer' = << >>
    /\ inflight' = << >>
    /\ \/ /\ nc' = "open"
          /\ in_with' = TRUE
          /\ Log("connect")
          /\ Goto(NextStmt(pc))
       \/ /\ nc' = "None"
          /\ in_with' = in_with
          /\ Log("connect_error")
          /\ OnConnectError
    /\ UNCHANGED << suite, ident, clock, start, in_handler, proc, published, sent,
                    store, db_ok, files >>

\* collector.start_collecting(): `if not self.nc: await self.connect()`, clear the
\* buffer, subscribe to "metrics"
StartCollecting ==
    /\ pc = "start_collecting"
    /\ \/ /\ nc' = "open"
          /\ metrics_buffer' = << >>
          /\ subscription' = "active"
          /\ subs' = subs + 1
          /\ events' = events \o (IF nc = "None" THEN << "connect" >> ELSE << >>)
                               \o << "subscribe" >>
          /\ Goto(NextStmt(pc))
       \/ /\ nc' = "open"
          /\ metrics_buffer' = << >>
          /\ UNCHANGED << subscription, subs >>
          /\ events' = events \o (IF nc = "None" THEN << "connect" >> ELSE << >>)
                               \o << "subscribe_error" >>
          /\ Raise
       \/ /\ nc = "None"
          /\ UNCHANGED << nc, metrics_buffer, subscription, subs >>
          /\ Log("connect_error")
          /\ OnConnectError
    /\ UNCHANGED << suite, ident, clock, start, scope, proc, inflight, published, sent,
                    store, db_ok, files >>

\* time.sleep(2) after start_collecting and time.sleep(3) in start_locust
BlockingSleeps == {"sleep_collect", "grace"}

\* the server delivers a message published on the topic to the client's socket
Publish(msg) ==
    /\ pc \notin Terminal
    /\ subscription = "active"
    /\ published < MaxMsgs
    /\ published' = published + 1
    /\ inflight' = Append(inflight, msg)
    /\ sent' = Append(sent, [msg |-> msg, asleep |-> pc \in BlockingSleeps])
    /\ UNCHANGED << suite, pc, ident, clock, start, scope, pending, ret, proc, nc,
                    subscription, subs, metrics_buffer, store, db_ok, files, events >>

\* the sleep after start_collecting runs the event loop
SleepCollectYielding ==
    /\ pc = "sleep_collect"
    /\ clock' = clock + CollectSleep
    /\ metrics_buffer' = Dispatch(metrics_buffer, inflight)
    /\ inflight' = << >>
    /\ Goto(NextStmt(pc))
    /\ UNCHANGED << suite, ident, start, scope, proc, nc, subscription, subs, published,
                    sent, store, db_ok, files, events >>

\* time.sleep(2) after start_collecting
SleepCollect ==
    /\ pc = "sleep_collect"
    /\ clock' = clock + CollectSleep
    /\ Goto(NextStmt(pc))
    /\ UNCHANGED << suite, ident, start, scope, proc, coll, store, db_ok, files,
                    events >>

\* the thread sleeps and the event loop never runs
keep_alive_blocking(buffer, msgs, n) == [buffer |-> buffer, inflight |-> msgs]

\* CollectorClientSync.keep_alive: the loop runs for the slice and hands every
\* message that has arrived to the callback of its subscription, if the
\* connection still has one (n > 0)
keep_alive(buffer, msgs, n) ==
    [buffer |-> IF n > 0 THEN Dispatch(buffer, msgs) ELSE buffer,
     inflight |-> << >>]

\* collector.keep_alive(1.0), then the safety timeout of the liveness loop
KeepAlive ==
    /\ pc = "keep_alive"
    /\ clock' = clock + KeepAliveSlice
    /\ metrics_buffer' = keep_alive(metrics_buffer, inflight, subs).buffer
    /\ inflight' = keep_alive(metrics_buffer, inflight, subs).inflight
    /\ IF SafetyTimeout(clock' - start)
         THEN /\ Log("safety_timeout")
              /\ Goto(NextStmt("poll"))
         ELSE /\ UNCHANGED events
              /\ Goto("poll")
    /\ UNCHANGED << suite, ident, start, scope, proc, nc, subscription, subs, published, sent,
                    store, db_ok, files >>

\* collector.stop_collecting(): the subscription is removed before the loop
\* reads the socket again, so what is still in flight is never dispatched
StopCollecting ==
    /\ pc = "stop_collecting"
    /\ inflight' = << >>
    /\ IF subscription = "active"
         THEN \/ /\ subscription' = "None"
                 /\ subs' = subs - 1
                 /\ Log("unsubscribe")
                 /\ Goto(NextStmt(pc))
              \/ /\ UNCHANGED << subscription, subs >>
                 /\ Log("unsubscribe_error")
                 /\ Raise
         ELSE /\ UNCHANGED << subscription, subs, events >>
              /\ Goto(NextStmt(pc))
    /\ UNCHANGED << suite, ident, clock, start, scope, proc, nc, metrics_buffer,
                    published, sent, store, db_ok, files >>

\* the subscription is unsubscribed whether there is one or not
HasSubscriptionUnchecked(sub) == TRUE

\* disconnect, stop_collecting: `if self.subscription:`
HasSubscription(sub) == sub # "None"
\* disconnect: `if self.nc:`
HasConnection(n) == n # "None"

\* __exit__ -> disconnect: `if self.subscription: await unsubscribe()`
ExitUnsubscribe ==
    /\ pc = "exit_unsubscribe"
    /\ inflight' = << >>
    /\ IF HasSubscription(subscription)
         THEN \/ /\ subscription' = "closed"
                 /\ subs' = subs - 1
                 /\ Log("unsubscribe")
                 /\ pc' = "exit_close"
                 /\ in_with' = in_with
              \/ /\ UNCHANGED << subscription, subs >>
                 /\ Log("unsubscribe_error")
                 /\ pc' = "except"
                 /\ in_with' = FALSE
         ELSE /\ UNCHANGED << subscription, subs, events, in_with >>
              /\ pc' = "exit_close"
    /\ UNCHANGED << suite, ident, clock, start, in_handler, pending, ret, proc, nc,
                    metrics_buffer, published, sent, store, db_ok, files >>

\* disconnect: `if self.nc: await self.nc.close()`, then loop.close() and the
\* with block is left with the pending return value or exception
ExitClose ==
    /\ pc = "exit_close"
    /\ in_with' = FALSE
    /\ \/ /\ nc' = IF nc = "None" THEN nc ELSE "closed"
          /\ subs' = 0
          /\ IF nc = "None" THEN UNCHANGED events ELSE Log("close")
          /\ pc' = IF pending = "exc" THEN "except" ELSE "return"
          /\ ret' = CASE pending = "retT" -> "T"
                      [] pending = "retF" -> "F"
                      [] OTHER -> ret
       \/ /\ nc # "None"
          /\ UNCHANGED << nc, subs >>
          /\ Log("close_error")
          /\ pc' = "except"
          /\ ret' = ret
    /\ UNCHANGED << suite, ident, clock, start, in_handler, pending, proc,
                    subscription, metrics_buffer, inflight, published, sent, store, db_ok,
                    files >>

(***************************************************************************)
(* The load-generator process.  The coordinator learns that it has ended   *)
(* where it polls or waits; the stats file it leaves is chosen there.      *)
(***************************************************************************)
ProcessEnds(i, state, code, written, file) ==
    /\ procs' = [procs EXCEPT ![i] = [state |-> state, code |-> code]]
    /\ csv_files' = IF written THEN (run_ids[i] :> file) @@ csv_files ELSE csv_files

\* start_locust: open the log file and Popen(cmd); a failure of either is caught
StartLocust ==
    /\ pc = "start_locust"
    /\ \/ /\ locust_process' = idx
          /\ procs' = [procs EXCEPT ![idx] = [state |-> "alive", code |-> 0]]
          /\ Log("popen")
          /\ Goto("grace")
       \/ /\ UNCHANGED proc
          /\ Log("popen_error")
          /\ ReturnFromWith("retF")
    /\ UNCHANGED << suite, ident, clock, start, scope, coll, store, db_ok, files >>

\* start_locust: time.sleep(3); poll(); `if not self.start_locust(...): return False`;
\* start = time.time()
Grace ==
    /\ pc = "grace"
    /\ clock' = clock + GraceSleep
    /\ start' = clock'
    /\ \E alive \in BOOLEAN, code \in ExitCodes, written \in BOOLEAN, file \in RunCsvFiles :
         /\ written \/ file = << >>
         /\ IF alive
              THEN /\ code = 0 /\ ~written
                   /\ UNCHANGED << procs, csv_files >>
              ELSE ProcessEnds(locust_process, "exited", code, written, file)
         /\ events' = events \o (IF alive THEN << >> ELSE << "exited_in_grace" >>)
                               \o (IF StartLocustResult(alive) THEN << >>
                                                                ELSE << "launch_failed" >>)
         /\ IF StartLocustResult(alive)
              THEN Goto(NextStmt("start_locust"))
              ELSE ReturnFromWith("retF")
    /\ UNCHANGED << suite, ident, scope, locust_process, coll, store, db_ok,
                    locust_metrics,
                    db_metrics >>

\* while self.locust_process.poll() is None:
Poll ==
    /\ pc = "poll"
    /\ \/ /\ Alive(procs[locust_process])
          /\ Goto("keep_alive")
          /\ UNCHANGED << procs, csv_files >>
       \/ /\ Alive(procs[locust_process])
          /\ clock - start \in ExitTimes
          /\ \E code \in ExitCodes, written \in BOOLEAN, file \in RunCsvFiles :
               /\ written \/ file = << >>
               /\ ProcessEnds(locust_process, "exited", code, written, file)
          /\ Goto(NextStmt(pc))
       \/ /\ ~Alive(procs[locust_process])
          /\ Goto(NextStmt(pc))
          /\ UNCHANGED << procs, csv_files >>
    /\ UNCHANGED << suite, ident, clock, start, scope, locust_process, coll, store,
                    db_ok, locust_metrics, db_metrics, events >>

\* if not self.wait_for_locust_completion(timeout=30): self.stop_locust(); return False
WaitForLocustCompletion ==
    /\ pc = "wait_for_locust_completion"
    /\ \E timed_out \in BOOLEAN, code \in ExitCodes, written \in BOOLEAN,
          file \in RunCsvFiles :
         /\ written \/ file = << >>
         /\ IF locust_process # 0 /\ Alive(procs[locust_process])
              THEN IF timed_out
                     THEN /\ code = 0 /\ ~written
                          /\ clock' = clock + WaitTimeout
                          /\ UNCHANGED << procs, csv_files >>
                     ELSE /\ clock' = clock + ExitDelay
                          /\ ProcessEnds(locust_process, "exited", code, written, file)
              ELSE /\ ~timed_out /\ ~written
                   /\ locust_process # 0 => code = procs[locust_process].code
                   /\ locust_process = 0 => code = 0
                   /\ UNCHANGED << clock, procs, csv_files >>
         /\ IF locust_process # 0 /\ WaitResult(timed_out, code)
              THEN /\ Goto(NextStmt(pc))
                   /\ UNCHANGED events
              ELSE /\ Goto("stop_locust")
                   /\ Log(IF timed_out THEN "wait_timeout" ELSE "wait_failed")
    /\ UNCHANGED << suite, ident, start, scope, locust_process, coll, store, db_ok,
                    locust_metrics,
                    db_metrics >>

\* stop_locust returns to the statement after its call
StopReturn ==
    IF in_handler THEN /\ pc' = "return"
                       /\ ret' = "F"
                       /\ UNCHANGED pending
    ELSE ReturnFromWith("retF")

\* stop_locust: `if self.locust_process:` ... self.locust_process.terminate().
\* Popen.terminate does nothing for a process already reaped; signalling a
\* live one may raise OSError.
StopLocust ==
    /\ pc = "stop_locust"
    /\ IF locust_process = 0
         THEN /\ StopReturn
              /\ Log("stop_locust_none")
         ELSE \/ /\ Log("terminate")
                 /\ Goto("stop_wait")
              \/ /\ Alive(procs[locust_process])
                 /\ Log("terminate_error")
                 /\ Raise
    /\ UNCHANGED << suite, ident, clock, start, scope, proc, coll, store, db_ok,
                    files >>

\* stop_locust: wait(timeout=10), kill() on TimeoutExpired, self.locust_process = None
StopWait ==
    /\ pc = "stop_wait"
    /\ \/ /\ ~Alive(procs[locust_process])
          /\ UNCHANGED << clock, procs, csv_files, events >>
       \/ /\ Alive(procs[locust_process])
          /\ clock' = clock + ExitDelay
          /\ ProcessEnds(locust_process, "exited", -15, FALSE, << >>)
          /\ UNCHANGED events
       \/ /\ Alive(procs[locust_process])
          /\ clock' = clock + StopTimeout
          /\ ProcessEnds(locust_process, "killed", -9, FALSE, << >>)
          /\ Log("kill")
    /\ locust_process' = 0
    /\ StopReturn
    /\ UNCHANGED << suite, ident, start, scope, coll, store, db_ok, locust_metrics,
                    db_metrics >>

\* except Exception as e: logger.error(...); self.stop_locust(); return False
Except ==
    /\ pc = "except"
    /\ in_handler' = TRUE
    /\ in_with' = FALSE
    /\ Log("except")
    /\ Goto("stop_locust")
    /\ UNCHANGED << suite, ident, clock, start, proc, coll, store, db_ok, files >>

\* time.sleep(2): give the filesystem time to flush the CSVs
SleepFlush ==
    /\ pc = "sleep_flush"
    /\ clock' = clock + FlushSleep
    /\ Goto(NextStmt(pc))
    /\ UNCHANGED << suite, ident, start, scope, proc, coll, store, db_ok, files,
                    events >>

\* locust_metrics = self.locust_collector.extract_metrics(csv_prefix)
ExtractMetrics ==
    /\ pc = "extract_metrics"
    /\ LET r == extract_metrics(csv_files, run_id)
       IN  IF r.raised
             THEN /\ Log("extract_error")
                  /\ Raise
                  /\ UNCHANGED locust_metrics
             ELSE /\ Log("extract_metrics")
                  /\ locust_metrics' = r.rows
                  /\ Goto(NextStmt(pc))
    /\ UNCHANGED << suite, ident, clock, start, scope, proc, coll, store, db_ok,
                    csv_files, db_metrics >>

\* if cooldown > 0: time.sleep(cooldown)
CooldownSleep ==
    /\ pc = "cooldown"
    /\ IF Cooldown > 0
         THEN /\ clock' = clock + Cooldown
              /\ Log("cooldown")
         ELSE UNCHANGED << clock, events >>
    /\ Goto(NextStmt(pc))
    /\ UNCHANGED << suite, ident, start, scope, proc, coll, store, db_ok, files >>

\* return True (inside the with block)
ReturnTrue ==
    /\ pc = "return_true"
    /\ ReturnFromWith("retT")
    /\ UNCHANGED << suite, ident, clock, start, scope, proc, coll, store, db_ok,
                    files, events >>

Next ==
    \/ SuiteLoop
    \/ SuiteDone
    \/ Return
    \/ Crash
    \/ CreateBenchmarkRun
    \/ Enter
    \/ StartCollecting
    \/ \E msg \in RunMessages : Publish(msg)
    \/ SleepCollect
    \/ StartLocust
    \/ Grace
    \/ Poll
    \/ KeepAlive
    \/ WaitForLocustCompletion
    \/ StopLocust
    \/ StopWait
    \/ StopCollecting
    \/ SleepFlush
    \/ ExtractMetrics
    \/ InsertLocustMetrics
    \/ CollectorMetrics
    \/ CreateRunSummary
    \/ CooldownSleep
    \/ ReturnTrue
    \/ ExitUnsubscribe
    \/ ExitClose
    \/ Except

Spec == Init /\ [][Next]_vars

\* One thread runs the statements in sequence and every call made is bounded
\* (sleeps, wait(timeout=...), keep_alive(1.0)), so a statement that can be
\* executed eventually is.
FairSpec == Spec /\ WF_vars(Next)

(***************************************************************************)
(* The collector client on its own: a connected, subscribed                *)
(* CollectorClientSync whose caller interleaves keep_alive,                *)
(* get_aggregated_metrics and finally stop_collecting while the topic is   *)
(* published to.  Numbers are counted in units of the last digit that      *)
(* aggregate_metrics keeps.                                                *)
(***************************************************************************)
ClientSamples ==
    { [measurements |-> [active_connections |-> 8, max_connections |-> 50,
                         cache_hit_rate |-> 9000, sequential_scans |-> 4],
       health_score |-> 80, query_health |-> 70],
      [measurements |-> [max_connections |-> 100, cache_hit_rate |-> 0]],
      [measurements |-> [active_connections |-> 4, cache_hit_rate |-> 8000]],
      [query_health |-> 90],
      EmptyDict,
      NullSample }
ClientMessages ==
    { [kind |-> "invalid", body |-> EmptyDict],
      [kind |-> "array", body |-> EmptyDict] }
    \cup { [kind |-> "object", body |-> b] : b \in ClientSamples }

ClientInit ==
    /\ user_counts = << >>
    /\ idx = 1
    /\ success = 0
    /\ results = << >>
    /\ exit_status = -1
    /\ pc = "client"
    /\ run_id = << 0, 0 >>
    /\ run_ids = << >>
    /\ clock = 0
    /\ start = 0
    /\ in_with = TRUE
    /\ in_handler = FALSE
    /\ pending = "none"
    /\ ret = "none"
    /\ locust_process = 0
    /\ procs = [i \in 1..MaxRuns |-> NoProcess]
    /\ nc \in {"None", "open"}
    /\ subscription = "None"
    /\ subs = 0
    /\ metrics_buffer = << >>
    /\ inflight = << >>
    /\ published = 0
    /\ store = << >>
    /\ db_ok = TRUE
    /\ csv_files = EmptyDict
    /\ locust_metrics = << >>
    /\ db_metrics = NoMetrics
    /\ sent = << >>
    /\ events = << >>

\* what a collector client on its own never touches
runner == << suite, ident, clock, start, scope, pending, ret, proc, store, db_ok,
             csv_files, locust_metrics >>

\* start_collecting: connect if there is no connection, clear the buffer,
\* subscribe and keep the new subscription in self.subscription; a subscription
\* that was there is neither looked at nor unsubscribed
start_collecting ==
    /\ pc = "client"
    /\ \/ /\ nc' = "open"
          /\ metrics_buffer' = << >>
          /\ subscription' = "active"
          /\ subs' = subs + 1
          /\ sent' = << >>
       \/ /\ ~HasConnection(nc)
          /\ UNCHANGED << nc, metrics_buffer, subscription, subs, sent >>
    /\ UNCHANGED << runner, pc, inflight, published, db_metrics, events >>

\* the caller starts collecting when it is not collecting, as run_single_test does
ClientStartCollecting ==
    /\ ~HasSubscription(subscription)
    /\ start_collecting

\* the caller starts collecting again without stop_collecting in between
ClientRestartCollecting ==
    /\ HasSubscription(subscription)
    /\ subs < MaxSubs
    /\ start_collecting

\* the server sends a published message once for every subscription
Copies(msg, n) == [i \in 1..n |-> msg]

\* what may still be in flight after one of n subscriptions was removed: nothing
\* when it was the only one, otherwise the deliveries of the others (which of
\* the deliveries belonged to the removed one is not recorded)
RECURSIVE Subsequences(_)
Subsequences(msgs) ==
    IF msgs = << >> THEN { << >> }
    ELSE LET rest == Subsequences(Tail(msgs))
         IN  rest \cup { << Head(msgs) >> \o t : t \in rest }
AfterUnsubscribe(msgs, n) == IF n <= 1 THEN { << >> } ELSE Subsequences(msgs)

\* a message is published on the topic; the server sends it to the client only
\* while the client is subscribed
ClientPublish(msg) ==
    /\ pc = "client"
    /\ published < MaxSamples
    /\ published' = published + 1
    /\ inflight' = inflight \o Copies(msg, subs)
    /\ sent' = Append(sent, [msg |-> msg, asleep |-> FALSE])
    /\ UNCHANGED << runner, pc, nc, subscription, subs, metrics_buffer, db_metrics,
                    events >>

ClientKeepAlive ==
    /\ pc = "client"
    /\ HasConnection(nc)
    /\ metrics_buffer' = keep_alive(metrics_buffer, inflight, subs).buffer
    /\ inflight' = keep_alive(metrics_buffer, inflight, subs).inflight
    /\ UNCHANGED << runner, pc, nc, subscription, subs, published, sent, db_metrics,
                    events >>

\* the buffer is emptied when the subscription ends
ClientStopCollectingClears ==
    /\ pc = "client"
    /\ subscription = "active"
    /\ subscription' = "None"
    /\ subs' = subs - 1
    /\ inflight' \in AfterUnsubscribe(inflight, subs)
    /\ metrics_buffer' = << >>
    /\ UNCHANGED << runner, pc, nc, published, sent, db_metrics, events >>

ClientStopCollecting ==
    /\ pc = "client"
    /\ subscription = "active"
    /\ subscription' = "None"
    /\ subs' = subs - 1
    /\ inflight' \in AfterUnsubscribe(inflight, subs)
    /\ UNCHANGED << runner, pc, nc, metrics_buffer, published, sent, db_metrics,
                    events >>

\* disconnect: unsubscribe if there is a subscription, close if there is a
\* connection; an exception of the first skips the second
ClientDisconnect ==
    /\ pc = "client"
    /\ pc' = "disconnected"
    /\ \E unsub_ok, close_ok \in BOOLEAN :
         LET unsub == HasSubscription(subscription)
             close == HasConnection(nc) /\ ( unsub => unsub_ok )
         IN  /\ ~unsub => unsub_ok
             /\ ~close => close_ok
             /\ ( unsub /\ subscription = "None" ) => ~unsub_ok
             /\ subscription' = IF unsub /\ unsub_ok THEN "closed" ELSE subscription
             /\ nc' = IF close /\ close_ok THEN "closed" ELSE nc
             /\ subs' = IF close /\ close_ok THEN 0
                        ELSE IF unsub /\ unsub_ok THEN subs - 1 ELSE subs
             /\ inflight' = IF unsub /\ ~unsub_ok THEN inflight ELSE << >>
             /\ events' = events
                  \o ( IF ~unsub THEN << >>
                       ELSE IF unsub_ok THEN << "unsubscribe" >>
                       ELSE << "unsubscribe_error" >> )
                  \o ( IF ~close THEN << >>
                       ELSE IF close_ok THEN << "close" >>
                       ELSE << "close_error" >> )
    /\ UNCHANGED << runner, metrics_buffer, published, sent, db_metrics >>

ClientAggregate ==
    /\ pc = "client"
    /\ db_metrics' = aggregate_metrics(metrics_buffer)
    /\ UNCHANGED << runner, pc, coll, events >>

ClientNext ==
    \/ ClientStartCollecting
    \/ \E msg \in ClientMessages : ClientPublish(msg)
    \/ ClientKeepAlive
    \/ ClientStopCollecting
    \/ ClientDisconnect
    \/ ClientAggregate

ClientSpec == ClientInit /\ [][ClientNext]_vars

\* a collector client whose caller may call start_collecting at any time
ResubscribeNext ==
    \/ ClientNext
    \/ ClientRestartCollecting

ResubscribeSpec == ClientInit /\ [][ResubscribeNext]_vars

(***************************************************************************)
(* The CSV extractor on its own: a stats file that is absent, created with *)
(* its header and then grown row by row, and LocustCollector.extract_metrics*)
(* called on it at any time.                                               *)
(***************************************************************************)
ExtractInit ==
    /\ user_counts = << >>
    /\ idx = 1
    /\ success = 0
    /\ results = << >>
    /\ exit_status = -1
    /\ pc = "extractor"
    /\ run_id = << 0, 0 >>
    /\ run_ids = << >>
    /\ clock = 0
    /\ start = 0
    /\ in_with = FALSE
    /\ in_handler = FALSE
    /\ pending = "none"
    /\ ret = "none"
    /\ locust_process = 0
    /\ procs = [i \in 1..MaxRuns |-> NoProcess]
    /\ nc = "None"
    /\ subscription = "None"
    /\ subs = 0
    /\ metrics_buffer = << >>
    /\ inflight = << >>
    /\ published = 0
    /\ store = << >>
    /\ db_ok = TRUE
    /\ csv_files = EmptyDict
    /\ locust_metrics = << >>
    /\ db_metrics = NoMetrics
    /\ sent = << >>
    /\ events = << >>

\* what the extractor on its own never touches
others == << suite, pc, ident, clock, start, scope, pending, ret, proc, coll, store,
             db_ok, db_metrics >>

\* the file is created with its header and no data row
ExtractCreateFile ==
    /\ pc = "extractor"
    /\ run_id \notin DOMAIN csv_files
    /\ csv_files' = (run_id :> << >>) @@ csv_files
    /\ UNCHANGED << others, locust_metrics, events >>

\* a data row is appended to the file
ExtractWriteRow(kind) ==
    /\ pc = "extractor"
    /\ run_id \in DOMAIN csv_files
    /\ Len(csv_files[run_id]) < MaxRows
    /\ csv_files' = [csv_files EXCEPT ![run_id] = Append(@, kind)]
    /\ UNCHANGED << others, locust_metrics, events >>

\* locust_metrics = extract_metrics(csv_prefix)
ExtractCall ==
    /\ pc = "extractor"
    /\ LET r == extract_metrics(csv_files, run_id)
       IN  /\ locust_metrics' = r.rows
           /\ events' = IF r.raised THEN << "extract_error" >>
                                     ELSE << "extract_metrics" >>
    /\ UNCHANGED << others, csv_files >>

ExtractNext ==
    \/ ExtractCreateFile
    \/ \E kind \in RowKinds : ExtractWriteRow(kind)
    \/ ExtractCall

ExtractSpec == ExtractInit /\ [][ExtractNext]_vars

(***************************************************************************)
(* Properties.  events holds what the current run did; it is emptied when  *)
(* run_single_test has returned, so a run is judged at pc = "return".      *)
(***************************************************************************)
Did(e) == \E i \in 1..Len(events) : events[i] = e
\* every occurrence of b in events has an occurrence of a before it
Precedes(a, b) ==
    \A j \in 1..Len(events) :
        events[j] = b => \E i \in 1..(j - 1) : events[i] = a
InRun == pc \notin {"suite_loop", "terminated"}
MetricRows(rid) ==
    \/ HasRow(store, "locust_metrics", rid)
    \/ HasRow(store, "collector_metrics", rid)
    \/ HasRow(store, "run_summary", rid)
ValidCsv(rid) ==
    /\ rid \in DOMAIN csv_files
    /\ ~extract_metrics(csv_files, rid).raised
    /\ extract_metrics(csv_files, rid).rows # << >>
ExtractionAttempted == Did("extract_metrics") \/ Did("extract_error")
StopAttempted ==
    Did("stop_locust_none") \/ Did("terminate") \/ Did("terminate_error")
CloseAttempted == Did("close") \/ Did("close_error")
DisconnectAttempted ==
    Did("unsubscribe") \/ Did("unsubscribe_error") \/ CloseAttempted

\* C1: a run whose load generator exited by itself with a non-zero status after
\* writing a valid CSV still has its EndpointMetric rows inserted and
\* create_run_summary called for its run_id.
C1_NonZeroExitStillExtracts ==
    ( /\ pc = "return"
      /\ procs[idx].state = "exited"
      /\ procs[idx].code > 0
      /\ ~Did("exited_in_grace")
      /\ ValidCsv(run_id) )
    => /\ HasRow(store, "locust_metrics", run_id)
       /\ Did("create_run_summary")

\* C2: a run whose load generator was still alive after duration + safety margin
\* and was force-terminated still calls extract_metrics afterwards.
C2_TimeoutStillExtracts ==
    ( /\ pc = "return"
      /\ Did("safety_timeout")
      /\ Did("wait_timeout")
      /\ Did("terminate") )
    => ExtractionAttempted

\* C3: a run that left the liveness loop on the safety timeout force-terminates
\* the process and is never reported as successful.
C3_TimeoutNeverSucceeds ==
    ( pc = "return" /\ Did("safety_timeout") )
    => ( ret = "F" /\ Did("terminate") )

\* C4: no exception escapes run_single_test, and a suite that has ended attempted
\* every concurrency level exactly once and in list order.
C4_SuiteNeverAborted ==
    /\ pc # "crashed"
    /\ pc = "terminated" =>
         /\ Len(results) = Len(user_counts)
         /\ Len(run_ids) = Len(user_counts)
         /\ \A i \in 1..Len(user_counts) : run_ids[i][1] = user_counts[i]

\* C5: a run that is followed by another run has slept the cooldown before it
\* returns, whether it succeeded or failed.
C5_CooldownBetweenRuns ==
    ( pc = "return" /\ idx < Len(user_counts) ) => Did("cooldown")

\* C6: on a failed run a failing unsubscribe skips neither the close of the
\* connection nor stop_locust, and a failing stop_locust does not skip the
\* disconnect of the collector.
C6_TeardownIndependent ==
    ( pc = "return" /\ ret = "F" )
    => /\ Did("unsubscribe_error") => ( CloseAttempted /\ StopAttempted )
       /\ Did("terminate_error") => DisconnectAttempted

\* C7: create_benchmark_run completes before the collector connection is opened
\* and before the process is launched, so whenever a connection or a process of
\* a run exists the run has its BenchmarkRun record.
C7_RunRecordedFirst ==
    /\ Precedes("create_benchmark_run", "connect")
    /\ Precedes("create_benchmark_run", "popen")
    /\ ( InRun /\ nc # "None" ) => HasRow(store, "benchmark_runs", run_id)
    /\ \A i \in 1..Len(run_ids) :
         procs[i].state # "none" => HasRow(store, "benchmark_runs", run_ids[i])
C7_Witness ==
    /\ nc = "open"
    /\ Alive(procs[idx])
    /\ HasRow(store, "benchmark_runs", run_id)

\* C8: the process is launched only after connect and then start_collecting; no
\* process is running while the collector was never subscribed in that run.
C8_SubscribedBeforeLaunch ==
    /\ Precedes("connect", "subscribe")
    /\ Precedes("subscribe", "popen")
    /\ \A i \in 1..MaxRuns :
         Alive(procs[i]) => ( i = idx /\ InRun /\ Did("subscribe") )
C8_Witness ==
    /\ Alive(procs[idx])
    /\ subscription = "active"
    /\ pc = "keep_alive"

\* statements a run can be at once it has been abandoned inside the with block
C9_AbandonedStatements ==
    {"exit_unsubscribe", "exit_close", "except", "stop_locust", "stop_wait", "return"}
C9_LaunchFailureState ==
    Did("exited_in_grace")
    => /\ Did("launch_failed")
       /\ pc \in C9_AbandonedStatements
       /\ pc = "return" => ret = "F"
       /\ ~MetricRows(run_id)
       /\ HasRow(store, "benchmark_runs", run_id)
C9_LaunchFailureStep ==
    ( pc = "return" /\ Did("exited_in_grace") /\ pc' # pc )
    => /\ pc' = "suite_loop"
       /\ idx' = idx + 1
       /\ results' = Append(results, FALSE)
       /\ success' = success
\* C9: a process that has exited when the grace period ends, whatever its exit
\* code, makes start_locust report a launch failure; the run is abandoned and
\* returns False, writes no EndpointMetric, AggregatedHealth or RunSummary row,
\* keeps its BenchmarkRun record, and the suite goes on with the next level.
C9_LaunchFailureAbandonsRun ==
    []C9_LaunchFailureState /\ [][C9_LaunchFailureStep]_vars
C9_Witness ==
    /\ pc = "return"
    /\ Did("exited_in_grace")
    /\ procs[idx].state = "exited"
    /\ procs[idx].code = 0
    /\ idx < Len(user_counts)

\* C10: a failed connect() at the start of a run is fatal to that run only: no
\* process is launched for it, it returns False, its BenchmarkRun record remains
\* and no metric or summary row is written for its run_id.
C10_ConnectFailureFatalToRun ==
    Did("connect_error")
    => /\ ~Did("popen")
       /\ procs[idx].state = "none"
       /\ pc \in {"except", "stop_locust", "stop_wait", "return"}
       /\ pc = "return" => ret = "F"
       /\ HasRow(store, "benchmark_runs", run_id)
       /\ ~MetricRows(run_id)
C10_Witness ==
    /\ pc = "return"
    /\ Did("connect_error")
    /\ idx < Len(user_counts)

\* positions in the store of the rows of a table for a run_id
Positions(table, rid) ==
    { j \in 1..Len(store) : store[j].table = table /\ store[j].run_id = rid }
MetricTables == {"locust_metrics", "collector_metrics"}
Before(S, T) == \A a \in S, b \in T : a < b

\* C11: there is at most one RunSummary row per run_id, and a RunSummary row for
\* a run_id exists only if EndpointMetric rows and an AggregatedHealth row for
\* that run_id were inserted before it.
C11_SummaryOnlyAfterBothMetrics ==
    \A i \in 1..Len(run_ids) :
        LET rid == run_ids[i]
            summary == Positions("run_summary", rid)
        IN  /\ Cardinality(summary) <= 1
            /\ \A c \in summary :
                 /\ \E a \in Positions("locust_metrics", rid) : a < c
                 /\ \E b \in Positions("collector_metrics", rid) : b < c

\* C11 as amended: there is at most one RunSummary row per run_id; it is written
\* after the BenchmarkRun record and after every EndpointMetric and
\* AggregatedHealth row of that run_id, and the rows that precede it are those
\* the run had data for: either kind may be absent.
C11_SummaryAfterAvailableMetrics ==
    /\ \A i \in 1..Len(run_ids) :
         LET rid == run_ids[i]
             summary == Positions("run_summary", rid)
         IN  /\ Cardinality(summary) <= 1
             /\ summary # {} => Positions("benchmark_runs", rid) # {}
             /\ Before(Positions("benchmark_runs", rid), summary)
             /\ \A t \in MetricTables : Before(Positions(t, rid), summary)
    /\ ( InRun /\ HasRow(store, "run_summary", run_id) )
       => /\ locust_metrics # << >> <=> HasRow(store, "locust_metrics", run_id)
          /\ Truthy(db_metrics) <=> HasRow(store, "collector_metrics", run_id)
C11_Witness ==
    /\ pc = "return"
    /\ ret = "T"
    /\ HasRow(store, "run_summary", run_id)
    /\ HasRow(store, "locust_metrics", run_id)
    /\ ~HasRow(store, "collector_metrics", run_id)

\* C12: a run for which run_single_test returns False has no RunSummary row for
\* its run_id, also when the failure is raised while the collector disconnects
\* or during the cooldown after the summary was requested.
C12_FailedRunHasNoSummary ==
    ( pc = "return" /\ ret = "F" ) => ~HasRow(store, "run_summary", run_id)

\* the writes of one run, in program order
RunWrites ==
    << "create_benchmark_run", "insert_locust_metrics", "insert_collector_metrics",
       "create_run_summary" >>
WriteRank(e) == CHOOSE r \in 1..Len(RunWrites) : RunWrites[r] = e
IsWrite(e) == \E r \in 1..Len(RunWrites) : RunWrites[r] = e
\* C13: within one run the store is written at most once per table and in the
\* order BenchmarkRun, EndpointMetric rows (only if extraction returned at least
\* one row), AggregatedHealth (only if the aggregate is non-empty), RunSummary;
\* no metric row of a run_id is written after its summary was requested.
C13_WritesOnceInOrder ==
    /\ \A i, j \in 1..Len(events) :
         ( i < j /\ IsWrite(events[i]) /\ IsWrite(events[j]) )
         => WriteRank(events[i]) < WriteRank(events[j])
    /\ \A r \in 2..Len(RunWrites) : Precedes(RunWrites[1], RunWrites[r])
    /\ Did("insert_locust_metrics")
       => /\ locust_metrics # << >>
          /\ Rows(store, "locust_metrics", run_id)
               = << Row("locust_metrics", run_id, Len(locust_metrics)) >>
    /\ Did("insert_collector_metrics")
       => /\ Truthy(db_metrics)
          /\ Len(Rows(store, "collector_metrics", run_id)) = 1
    /\ \A t \in MetricTables :
         Before(Positions(t, run_id), Positions("run_summary", run_id))
C13_Witness ==
    /\ pc = "return"
    /\ \A t \in MetricTables \cup {"benchmark_runs", "run_summary"} :
         Cardinality(Positions(t, run_id)) = 1

\* C14: a run in which no sample was buffered is tolerated: aggregate_metrics
\* returns None and not a record of zeros, no AggregatedHealth row is inserted
\* for the run_id, and the run goes on to request its summary.
C14_NoSamplesState ==
    ( InRun /\ metrics_buffer = << >> )
    => /\ ~HasRow(store, "collector_metrics", run_id)
       /\ ~Did("aggregate_error")
       /\ db_metrics.none
C14_NoSamplesStep ==
    ( pc = "collector_metrics" /\ metrics_buffer = << >> /\ pc' # pc )
    => /\ pc' = "create_run_summary"
       /\ store' = store
       /\ db_metrics' = NoMetrics
       /\ events' = events
C14_ZeroSamplesTolerated ==
    []C14_NoSamplesState /\ [][C14_NoSamplesStep]_vars
C14_Witness ==
    /\ pc = "return"
    /\ ret = "T"
    /\ metrics_buffer = << >>
    /\ HasRow(store, "locust_metrics", run_id)
    /\ HasRow(store, "run_summary", run_id)

\* the stats file of the run is absent or has no data row
CsvEmptyOrAbsent ==
    run_id \notin DOMAIN csv_files \/ csv_files[run_id] = << >>
\* the streaming aggregate is None or an empty record
AggregateEmptyOrAbsent ==
    ~aggregate_metrics(metrics_buffer).raised
    /\ ~Truthy(aggregate_metrics(metrics_buffer))
\* the run got as far as extraction and no store statement failed
Extracting == pc = "return" /\ ExtractionAttempted /\ ~Did("db_error")
C15_CsvSide ==
    ( Extracting /\ CsvEmptyOrAbsent /\ Truthy(aggregate_metrics(metrics_buffer)) )
    => /\ HasRow(store, "collector_metrics", run_id)
       /\ Did("create_run_summary")
C15_StreamSide ==
    ( Extracting /\ Did("extract_metrics") /\ locust_metrics # << >>
      /\ AggregateEmptyOrAbsent )
    => /\ HasRow(store, "locust_metrics", run_id)
       /\ Did("create_run_summary")
\* C15: after the collector is stopped an empty or absent CSV result does not
\* prevent the AggregatedHealth row, and an empty, absent or failing streaming
\* aggregate does not prevent the extracted EndpointMetric rows from being
\* persisted and the summary from being requested.
C15_ExtractionsIndependent ==
    /\ C15_CsvSide
    /\ C15_StreamSide
    /\ ( Extracting /\ Did("extract_metrics") /\ locust_metrics # << >>
         /\ aggregate_metrics(metrics_buffer).raised )
       => /\ HasRow(store, "locust_metrics", run_id)
          /\ Did("create_run_summary")
\* C15 as amended: an empty or absent CSV result does not prevent the
\* AggregatedHealth row and the summary; an empty or absent streaming aggregate
\* does not prevent the EndpointMetric rows and the summary; a streaming
\* aggregate that raises leaves the EndpointMetric rows already inserted in the
\* store, but the run returns False and no summary is requested.
C15_IndependentUnlessAggregateRaises ==
    /\ C15_CsvSide
    /\ C15_StreamSide
    /\ ( pc = "return" /\ Did("aggregate_error") )
       => /\ locust_metrics # << >> => HasRow(store, "locust_metrics", run_id)
          /\ ~Did("create_run_summary")
          /\ ~HasRow(store, "run_summary", run_id)
          /\ ret = "F"
C15_Witness ==
    /\ pc = "return"
    /\ ret = "T"
    /\ run_id \notin DOMAIN csv_files
    /\ HasRow(store, "collector_metrics", run_id)
    /\ HasRow(store, "run_summary", run_id)

\* C24: extract_metrics on a prefix whose stats file does not exist returns an
\* empty list and never raises; for a missing file and for a file with no
\* data row alike no EndpointMetric insert is made and the run goes on to the
\* collector aggregate and, when that and the store statements succeed, to the
\* summary.
C24_MissingFileAsEmptyFile ==
    /\ Did("extract_error") => ~CsvEmptyOrAbsent
    /\ ( ExtractionAttempted /\ CsvEmptyOrAbsent )
       => /\ Did("extract_metrics")
          /\ locust_metrics = << >>
          /\ ~Did("insert_locust_metrics")
          /\ ~HasRow(store, "locust_metrics", run_id)
    /\ ( pc = "return" /\ ExtractionAttempted /\ CsvEmptyOrAbsent
         /\ ~Did("aggregate_error") /\ ~Did("db_error") )
       => /\ Did("create_run_summary")
          /\ HasRow(store, "run_summary", run_id)
C24_Witness ==
    /\ pc = "terminated"
    /\ results = << TRUE, TRUE >>
    /\ run_ids[1] \notin DOMAIN csv_files
    /\ run_ids[2] \in DOMAIN csv_files
    /\ csv_files[run_ids[2]] = << >>
    /\ \A i \in 1..2 : /\ HasRow(store, "run_summary", run_ids[i])
                        /\ ~HasRow(store, "locust_metrics", run_ids[i])

\* C27: any two runs started within one suite get distinct run_ids, also when
\* two runs of the same concurrency level start within the same clock second.
C27_DistinctRunIds ==
    \A i, j \in 1..Len(run_ids) : i # j => run_ids[i] # run_ids[j]

\* the runs whose load-generator process is alive
AliveProcesses == { i \in 1..MaxRuns : Alive(procs[i]) }
\* C28: the process and the collector connection are never shared across runs:
\* at most one launched process is alive, a connection is open only inside a
\* run, and stop_locust never signals or waits for a process handle that an
\* earlier run launched.
C28_NoCrossRunSharing ==
    /\ Cardinality(AliveProcesses) <= 1
    /\ nc = "open" => InRun
    /\ pc = "stop_wait" => locust_process = idx

\* C29: terminate is sent before kill, kill only after the bounded wait found
\* the process alive, and the collector is never unsubscribed or disconnected
\* while a launched process is still running.
C29_CancellationOrder ==
    /\ Did("kill") => Precedes("terminate", "kill")
    /\ pc \in {"exit_unsubscribe", "exit_close"} => AliveProcesses = {}

\* C30: run_benchmark_suite counts exactly the runs that returned True, a
\* suite whose runs all failed exits with a non-zero status, and the exit
\* status is 0 exactly when every run of the suite succeeded.
C30_ExitStatusCountsSuccesses ==
    /\ success = Cardinality({ i \in 1..Len(results) : results[i] })
    /\ pc = "terminated"
       => /\ Len(results) = Len(user_counts)
          /\ exit_status = 0 <=> \A i \in 1..Len(results) : results[i]
          /\ (\A i \in 1..Len(results) : ~results[i]) => exit_status # 0
    /\ pc = "crashed" => exit_status # 0
C30_Witness ==
    /\ pc = "terminated"
    /\ results = << FALSE, FALSE >>
    /\ success = 0
    /\ exit_status = 1

\* C31: whenever run_single_test returns, with either result and on every
\* failure path, the process launched by that run is no longer alive and the
\* collector connection opened by that run has been closed.
C31_ProcessStopped == pc = "return" => ~Alive(procs[idx])
C31_ConnectionClosed == pc = "return" => nc # "open"
C31_CleanTeardown ==
    /\ C31_ProcessStopped
    /\ C31_ConnectionClosed

\* a run ends: run_single_test returns, or an exception leaves it
RunEnded == pc \in {"return", "crashed"}
\* what does hold under fair scheduling: every run ends and so does the suite
EveryRunEnds ==
    /\ (pc = FirstStmt) ~> RunEnded
    /\ <>(pc \in Terminal)
\* C32: under fair scheduling every run that was started eventually returns
\* from run_single_test, and run_benchmark_suite eventually returns.
C32_EveryRunReturns ==
    /\ (pc = FirstStmt) ~> (pc = "return")
    /\ <>(pc = "terminated")

\* how often the current run did e
Count(e) == Cardinality({ i \in 1..Len(events) : events[i] = e })
\* C33: run_single_test returns True only if in that run the process passed
\* the launch grace check and later exited with status 0 within the bounded
\* wait, the collector was unsubscribed before extraction, and
\* create_run_summary was called exactly once for the run_id and returned
\* without error.
C33_TrueOnlyAfterCompleteRun ==
    ( pc = "return" /\ ret = "T" )
    => /\ Did("popen")
       /\ ~Did("exited_in_grace") /\ ~Did("launch_failed")
       /\ locust_process = idx
       /\ procs[idx] = [state |-> "exited", code |-> 0]
       /\ ~Did("wait_timeout") /\ ~Did("wait_failed")
       /\ ~Did("terminate") /\ ~Did("kill")
       /\ Count("unsubscribe") = 1
       /\ Precedes("unsubscribe", "extract_metrics")
       /\ Did("extract_metrics")
       /\ Count("create_run_summary") = 1
       /\ Rows(store, "run_summary", run_id) = << Row("run_summary", run_id, 1) >>
       /\ ~Did("db_error") /\ ~Did("except")
C33_Witness ==
    /\ pc = "return"
    /\ ret = "T"
    /\ idx = 2
    /\ results = << FALSE >>
    /\ procs[idx] = [state |-> "exited", code |-> 0]
    /\ Did("safety_timeout")
    /\ Count("create_run_summary") = 1

\* a store statement of the current run that was committed, and its table
Committed ==
    { "create_benchmark_run", "insert_locust_metrics", "insert_collector_metrics",
      "create_run_summary" }
TableOf(e) ==
    CASE e = "create_benchmark_run" -> "benchmark_runs"
      [] e = "insert_locust_metrics" -> "locust_metrics"
      [] e = "insert_collector_metrics" -> "collector_metrics"
      [] e = "create_run_summary" -> "run_summary"
\* C35: store failures are isolated per run: a failed store statement leaves
\* the rows the run committed before it in place, and it does not prevent a
\* later run of the suite from creating its BenchmarkRun record and persisting
\* its metrics: when a run starts, the shared connection accepts statements.
C35_StoreFailuresIsolated ==
    /\ \A e \in Committed : Did(e) => HasRow(store, TableOf(e), run_id)
    /\ pc = FirstStmt => db_ok

(***************************************************************************)
(* Properties of the collector client (ClientSpec).                        *)
(***************************************************************************)
AveragedFields ==
    {"active_connections", "sequential_scans", "cache_hit_rate", "query_health",
     "connection_health", "cache_health", "overall_health"}
MeasurementFields == {"active_connections", "sequential_scans", "cache_hit_rate"}
\* the key of a sample an aggregated field is read from, and where it is
SourceKey(f) == IF f = "overall_health" THEN "health_score" ELSE f
Container(m, f) ==
    IF f \notin MeasurementFields THEN m
    ELSE IF "measurements" \in DOMAIN m THEN m["measurements"] ELSE EmptyDict
\* the sample reports field f (a cache hit rate of zero counts as not reported)
Reported(m, f) ==
    /\ SourceKey(f) \in DOMAIN Container(m, f)
    /\ f = "cache_hit_rate" => Container(m, f)[SourceKey(f)] > 0
ReportedValues(buffer, f) ==
    LET sel == SelectSeq(buffer, LAMBDA m : Reported(m, f))
    IN  [i \in 1..Len(sel) |-> Container(sel[i], f)[SourceKey(f)]]
\* a is the mean of the values s, truncated or rounded to the unit
IsMeanOf(a, s, f) ==
    LET t == SumSeq(s)
        n == Len(s)
    IN  IF f \in {"active_connections", "sequential_scans"}
          THEN a * n <= t /\ t < (a + 1) * n
          ELSE 2 * (a * n - t) <= n /\ 2 * (t - a * n) <= n

\* C16: for a buffer in which a field is present in only k of the N samples,
\* the aggregate of that field is the mean of exactly those k values; a sample
\* without the field adds nothing to the sum or to the divisor.
C16_MeanOverReportingSamples ==
    LET r == aggregate_metrics(metrics_buffer)
    IN  ( ~r.none /\ ~r.raised )
        => \A f \in AveragedFields :
             ReportedValues(metrics_buffer, f) # << >>
             => /\ f \in DOMAIN r.agg
                /\ IsMeanOf(r.agg[f], ReportedValues(metrics_buffer, f), f)

Reorderings(n) ==
    { p \in [1..n -> 1..n] : \A i, j \in 1..n : p[i] = p[j] => i = j }
Permuted(buffer, p) == [i \in 1..Len(buffer) |-> buffer[p[i]]]
\* C17: aggregate_metrics gives the same record, max_connections included, for
\* every reordering of the samples of the buffer.
C17_PermutationInvariant ==
    \A p \in Reorderings(Len(metrics_buffer)) :
        aggregate_metrics(Permuted(metrics_buffer, p)) = aggregate_metrics(metrics_buffer)

\* C18: the aggregated cache_hit_rate is the mean of exactly the strictly
\* positive cache_hit_rate values of the buffer; when no sample has a positive
\* value the field is left out of the aggregate.
C18_CacheHitRateOverPositive ==
    LET r == aggregate_metrics(metrics_buffer)
        positive == ReportedValues(metrics_buffer, "cache_hit_rate")
    IN  ( ~r.none /\ ~r.raised )
        => /\ "cache_hit_rate" \in DOMAIN r.agg <=> positive # << >>
           /\ positive # << >>
              => IsMeanOf(r.agg["cache_hit_rate"], positive, "cache_hit_rate")
C18_Witness ==
    /\ pc = "client"
    /\ db_metrics = aggregate_metrics(metrics_buffer)
    /\ Len(metrics_buffer) = 3
    /\ Len(ReportedValues(metrics_buffer, "cache_hit_rate")) = 2
    /\ \E i \in 1..3 : Get(Measurements(metrics_buffer[i]), "cache_hit_rate", 1) = 0
    /\ "cache_hit_rate" \in DOMAIN db_metrics.agg

\* the bodies of the well-formed messages of a stream, in delivery order
RECURSIVE ValidBodies(_)
ValidBodies(msgs) ==
    IF msgs = << >> THEN << >>
    ELSE IF Head(msgs).kind = "object"
      THEN << Head(msgs).body >> \o ValidBodies(Tail(msgs))
      ELSE ValidBodies(Tail(msgs))
Sent == [i \in 1..Len(sent) |-> sent[i].msg]
Malformed(msg) == msg.kind # "object"

C19_StreamState ==
    /\ \E k \in 0..Len(ValidBodies(Sent)) :
         metrics_buffer = SubSeq(ValidBodies(Sent), 1, k)
    /\ subscription = "active"
       => metrics_buffer \o ValidBodies(inflight) = ValidBodies(Sent)
C19_StreamStep ==
    ( subscription = "active" /\ inflight # << >> /\ inflight' = << >>
      /\ subscription' = subscription )
    => metrics_buffer' = ValidBodies(Sent)
\* C19: a malformed message is dropped without changing the buffer and every
\* well-formed message delivered before or after it is appended: after a stream
\* the buffer holds the well-formed messages, in delivery order.
C19_MalformedDropped ==
    []C19_StreamState /\ [][C19_StreamStep]_vars
C19_Witness ==
    /\ pc = "client"
    /\ Len(sent) = 3
    /\ ~Malformed(Sent[1]) /\ Malformed(Sent[2]) /\ ~Malformed(Sent[3])
    /\ inflight = << >>
    /\ metrics_buffer = << Sent[1].body, Sent[3].body >>

\* the statements between start_collecting and stop_collecting
C20_Collecting ==
    /\ subscription = "active"
    /\ pc \in {"sleep_collect", "start_locust", "grace", "poll", "keep_alive",
               "wait_for_locust_completion", "stop_collecting"}
C20_DeliveryState ==
    C20_Collecting
    => /\ Len(metrics_buffer) + Len(inflight) = Len(sent)
       /\ \A i \in 1..Len(metrics_buffer) : metrics_buffer[i] = sent[i].msg.body
C20_KeepAliveStep ==
    ( pc = "keep_alive" /\ pc' # pc /\ subscription = "active" )
    => /\ Len(metrics_buffer') = Len(sent)
       /\ inflight' = << >>
C21_NoKeepAliveYet ==
    \/ pc \in {"sleep_collect", "start_locust", "grace"}
    \/ Did("launch_failed")
    \/ Did("popen_error")
C21_BufferState == C21_NoKeepAliveYet => metrics_buffer = << >>
C21_BufferStep ==
    metrics_buffer' # metrics_buffer
    => \/ pc = "keep_alive"
       \/ metrics_buffer' = << >>
\* C21: the buffer changes only inside keep_alive: no sample is appended during
\* a blocking sleep, the liveness poll or the bounded wait, and a run that
\* subscribes and never calls keep_alive ends with an empty buffer however many
\* messages were published.
C21_BufferOnlyInKeepAlive ==
    []C21_BufferState /\ [][C21_BufferStep]_vars
C21_Witness ==
    /\ pc = "return"
    /\ Did("subscribe")
    /\ Did("launch_failed")
    /\ Len(sent) = MaxMsgs
    /\ metrics_buffer = << >>

C22_AfterStopStep ==
    /\ ( subscription = "active" /\ subscription' = "None" )
       => metrics_buffer' = metrics_buffer
    /\ ( subscription = "None" /\ subscription' = "None" )
       => metrics_buffer' = metrics_buffer
C26_DisconnectStep ==
    ( pc = "client" /\ pc' = "disconnected" )
    => /\ ( nc = "None" /\ subscription = "None" )
          => /\ events' = events
             /\ nc' = "None"
             /\ subscription' = "None"
       /\ ( nc = "open" /\ subscription = "None" )
          => /\ events' \in { events \o << "close" >>, events \o << "close_error" >> }
             /\ subscription' = "None"
\* C26: disconnect called when connect never succeeded performs no unsubscribe
\* and no close and does not raise; called after stop_collecting it closes the
\* connection without a second unsubscribe.
C26_DisconnectSafe ==
    [][C26_DisconnectStep]_vars
C26_Witness ==
    /\ pc = "disconnected"
    /\ nc = "None"
    /\ subscription = "None"
    /\ events = << >>

\* C34: at most one subscription to the metrics topic is active per collector
\* for every sequence of start_collecting, stop_collecting and disconnect
\* calls; without a subscription in self.subscription none is left on the
\* connection, and a published message is appended to the buffer at most once.
C34_AtMostOneSubscription ==
    /\ subs <= 1
    /\ ~HasSubscription(subscription) => subs = 0
    /\ Len(metrics_buffer) <= published

(***************************************************************************)
(* Properties of the CSV extractor (ExtractSpec).                          *)
(***************************************************************************)
\* the positions of the well-formed endpoint rows of a file, in file order
WellFormedRows(file) ==
    SelectSeq([i \in 1..Len(file) |-> i], LAMBDA i : file[i] = "ok")
Unparseable(kind) == kind \in {"bad", "short"}

\* C23: extract_metrics returns exactly one EndpointMetric per well-formed row
\* that is not the aggregated total, in file order, and none for the aggregated
\* total wherever it is placed.
C23_OnePerWellFormedRow ==
    run_id \in DOMAIN csv_files
    => /\ extract_metrics(csv_files, run_id).rows = WellFormedRows(csv_files[run_id])
       /\ \A i \in 1..Len(csv_files[run_id]) :
            csv_files[run_id][i] = "agg"
            => \A j \in 1..Len(extract_metrics(csv_files, run_id).rows) :
                 extract_metrics(csv_files, run_id).rows[j] # i

\* C25: a row whose numeric fields cannot be parsed (non-numeric or empty text,
\* or fields missing because the row is shorter than the header) is dropped: no
\* exception leaves extract_metrics and every well-formed row of the file still
\* yields its EndpointMetric.
C25_UnparseableRowDropped ==
    ( /\ run_id \in DOMAIN csv_files
      /\ \E i \in 1..Len(csv_files[run_id]) : Unparseable(csv_files[run_id][i]) )
    => /\ ~extract_metrics(csv_files, run_id).raised
       /\ Len(extract_metrics(csv_files, run_id).rows)
            = Len(WellFormedRows(csv_files[run_id]))

====
